---- MODULE Spec2Model ----
(***************************************************************************)
(* Model of markdown_chunkify.utils.splitters.MarkdownSplitter.split_text: *)
(* the code-block masking pass, the header scan, the hierarchy stack and   *)
(* the assembly of MarkdownSection values.                                 *)
(*                                                                         *)
(* A Python str is a sequence of one-character strings.  Positions are     *)
(* 1-based; a match [start, end) keeps Python's half-open convention, so   *)
(* Python's position p is p + 1 here.  os.linesep is "\n" (POSIX).         *)
(***************************************************************************)
EXTENDS Integers, Sequences, FiniteSets, TLC

\* ------------------------------------------------------------------------
\* Bounds of the model
\* ------------------------------------------------------------------------
\* Header-only documents: up to MaxHeaders headers of depth 1..MaxNest, and
\* up to MaxDeep headers of depth 1..MaxDepth.
MaxHeaders == 5
MaxNest == 3
MaxDeep == 3
MaxDepth == 6
\* Documents of arbitrary lines: up to MaxLines lines.
MaxLines == 4
\* Documents with a fenced block: up to MaxBody body lines.
MaxBody == 3
MaxBlank == 3
MaxFileLines == 2
MaxAttempts == 3
MaxParDepth == 2
MaxParHeaders == 2

\* ------------------------------------------------------------------------
\* Characters and Python str primitives
\* ------------------------------------------------------------------------
NL == "\n"
HASH == "#"
\* The backquote character, which a TLA+ string literal cannot hold.
TICK == "BACKQUOTE"

\* The whitespace characters of str.strip(), str.lstrip() and of \s.
Whitespace == {" ", "\t", "\n", "\r", "\f"}

Min(a, b) == IF a < b THEN a ELSE b

\* s[p:] with p a 1-based position.
From(s, p) == SubSeq(s, p, Len(s))

\* str.lstrip()
RECURSIVE LStrip(_)
LStrip(s) ==
    IF s = <<>> THEN <<>>
    ELSE IF Head(s) \in Whitespace THEN LStrip(Tail(s)) ELSE s

\* str.rstrip()
RECURSIVE RStrip(_)
RStrip(s) ==
    IF s = <<>> THEN <<>>
    ELSE IF s[Len(s)] \in Whitespace THEN RStrip(SubSeq(s, 1, Len(s) - 1)) ELSE s

\* str.strip()
Strip(s) == RStrip(LStrip(s))

\* s.startswith(pat, p): pat occurs in s at position p.
StartsWithAt(s, p, pat) ==
    /\ p >= 1
    /\ p + Len(pat) - 1 <= Len(s)
    /\ SubSeq(s, p, p + Len(pat) - 1) = pat

\* s.find(pat, p): the first position >= p where pat occurs, 0 when none.
RECURSIVE Find(_, _, _)
Find(s, pat, p) ==
    IF p + Len(pat) - 1 > Len(s) THEN 0
    ELSE IF StartsWithAt(s, p, pat) THEN p
    ELSE Find(s, pat, p + 1)

\* pat in s
Contains(s, pat) == Find(s, pat, 1) # 0

\* str.replace(old, new): every non-overlapping occurrence, left to right;
\* the inserted text is not scanned again.
RECURSIVE Replace(_, _, _)
Replace(s, old, new) ==
    LET p == Find(s, old, 1) IN
    IF old = <<>> \/ p = 0 THEN s
    ELSE SubSeq(s, 1, p - 1) \o new \o Replace(From(s, p + Len(old)), old, new)

\* str.split("\n"): always at least one element.
RECURSIVE Split(_)
Split(s) ==
    LET p == Find(s, <<NL>>, 1) IN
    IF p = 0 THEN <<s>>
    ELSE <<SubSeq(s, 1, p - 1)>> \o Split(From(s, p + 1))

\* os.linesep.join(lines)
RECURSIVE Join(_)
Join(lines) ==
    IF lines = <<>> THEN <<>>
    ELSE IF Len(lines) = 1 THEN lines[1]
    ELSE lines[1] \o <<NL>> \o Join(Tail(lines))

\* "#" * n
RECURSIVE Marks(_)
Marks(n) == IF n = 0 THEN <<>> ELSE <<HASH>> \o Marks(n - 1)

\* str(k) for a natural number k.
DigitChars == <<"0", "1", "2", "3", "4", "5", "6", "7", "8", "9">>

RECURSIVE Str(_)
Str(k) ==
    IF k < 10 THEN <<DigitChars[k + 1]>>
    ELSE Str(k \div 10) \o <<DigitChars[(k % 10) + 1]>>

\* f"h{level}"
HKey(level) == <<"h">> \o Str(level)

\* None, and a present Optional[str].
None == [some |-> FALSE, val |-> <<>>]
Some(v) == [some |-> TRUE, val |-> v]

\* d[k] = v on a dict.
DictSet(d, k, v) == [x \in (DOMAIN d) \cup {k} |-> IF x = k THEN v ELSE d[x]]

\* ------------------------------------------------------------------------
\* _process_code_blocks
\* ------------------------------------------------------------------------
FENCE == <<TICK, TICK, TICK>>

\* f"{{{{CODE_COMMENT_{counter}}}}}"
Token(counter) ==
    <<"{", "{", "C", "O", "D", "E", "_", "C", "O", "M", "M", "E", "N", "T", "_">>
        \o Str(counter) \o <<"}", "}">>

\* replacement_map[token] = line on the insertion-ordered dict, kept as a
\* sequence of <<token, original>> items: an existing key keeps its place.
MapSet(m, token, line) ==
    IF \E j \in 1..Len(m) : m[j][1] = token
    THEN [j \in 1..Len(m) |-> IF m[j][1] = token THEN <<token, line>> ELSE m[j]]
    ELSE Append(m, <<token, line>>)

\* line.lstrip().startswith("#")
IsCommentLine(line) == StartsWithAt(LStrip(line), 1, <<HASH>>)

\* The for loop of replace_comments over the lines of one block body.
RECURSIVE ProcessLines(_, _, _, _)
ProcessLines(lines, processed_lines, counter, map) ==
    IF lines = <<>>
    THEN [processed_lines |-> processed_lines, counter |-> counter, map |-> map]
    ELSE IF IsCommentLine(Head(lines))
         THEN ProcessLines(Tail(lines),
                           Append(processed_lines, Token(counter)),
                           counter + 1,
                           MapSet(map, Token(counter), Head(lines)))
         ELSE ProcessLines(Tail(lines), Append(processed_lines, Head(lines)),
                           counter, map)

\* replace_comments(match): the replacement text of one block, with the
\* updated counter and replacement_map.
replace_comments(code_block, counter, map) ==
    LET r == ProcessLines(Split(code_block), <<>>, counter, map) IN
    [text |-> FENCE \o Join(r.processed_lines) \o FENCE,
     counter |-> r.counter, map |-> r.map]

\* A match of r"```(?:.*?)\n(.*?)```" with re.DOTALL starting at p: the
\* opening fence, lazily up to the first newline, then lazily up to the
\* first closing fence.  matched = FALSE when there is none.
CodeBlockMatchAt(s, p) ==
    LET nl == IF StartsWithAt(s, p, FENCE) THEN Find(s, <<NL>>, p + 3) ELSE 0
        close == IF nl = 0 THEN 0 ELSE Find(s, FENCE, nl + 1)
    IN IF close = 0
       THEN [matched |-> FALSE, start |-> p, end |-> p, group1 |-> <<>>]
       ELSE [matched |-> TRUE, start |-> p, end |-> close + 3,
             group1 |-> SubSeq(s, nl + 1, close - 1)]

\* The same scan with the counter set back to 0 at every block.
RECURSIVE SubCodeBlocksReset(_, _, _, _, _)
SubCodeBlocksReset(s, p, out, counter, map) ==
    IF p > Len(s) THEN [text |-> out, counter |-> counter, map |-> map]
    ELSE LET m == CodeBlockMatchAt(s, p) IN
         IF m.matched
         THEN LET r == replace_comments(m.group1, 0, map) IN
              SubCodeBlocksReset(s, m.end, out \o r.text, r.counter, r.map)
         ELSE SubCodeBlocksReset(s, p + 1, Append(out, s[p]), counter, map)

\* re.sub(code_block_pattern, replace_comments, text, flags=re.DOTALL),
\* scanning from position p with the text emitted so far in out.
RECURSIVE SubCodeBlocks(_, _, _, _, _)
SubCodeBlocks(s, p, out, counter, map) ==
    IF p > Len(s) THEN [text |-> out, counter |-> counter, map |-> map]
    ELSE LET m == CodeBlockMatchAt(s, p) IN
         IF m.matched
         THEN LET r == replace_comments(m.group1, counter, map) IN
              SubCodeBlocks(s, m.end, out \o r.text, r.counter, r.map)
         ELSE SubCodeBlocks(s, p + 1, Append(out, s[p]), counter, map)

\* _process_code_blocks(text) -> (processed_text, replacement_map)
process_code_blocks(s) == SubCodeBlocks(s, 1, <<>>, 0, <<>>)

\* ------------------------------------------------------------------------
\* The header pattern r"^(#+)\s+(.+)$" with re.MULTILINE
\* ------------------------------------------------------------------------
\* The end (exclusive) of the maximal run of characters of set cs from p.
RECURSIVE RunEnd(_, _, _)
RunEnd(s, p, cs) ==
    IF p <= Len(s) /\ s[p] \in cs THEN RunEnd(s, p + 1, cs) ELSE p

\* The end (exclusive) of the line that holds position p: where "$" holds.
RECURSIVE LineEnd(_, _)
LineEnd(s, p) == IF p <= Len(s) /\ s[p] # NL THEN LineEnd(s, p + 1) ELSE p

\* The last position q in lo..hi with s[q] not a newline, 0 when none:
\* where "\s+" stops giving characters back to "(.+)".
RECURSIVE LastNonNewline(_, _, _)
LastNonNewline(s, lo, hi) ==
    IF hi < lo THEN 0
    ELSE IF s[hi] # NL THEN hi ELSE LastNonNewline(s, lo, hi - 1)

\* "^" in multi-line mode.
AtLineStart(s, p) == p = 1 \/ (p - 1 <= Len(s) /\ s[p - 1] = NL)

\* The match of the header pattern starting at p, if any.  "(#+)" takes the
\* whole run of marks; "\s+" takes the whole run of whitespace, newlines
\* included; "(.+)$" takes the rest of the line reached.  When the
\* whitespace runs to the end of the text, "\s+" backtracks to leave "(.+)"
\* one non-newline whitespace character.
HeaderMatchAt(s, p) ==
    LET no == [matched |-> FALSE, start |-> p, end |-> p,
               group1 |-> <<>>, group2 |-> <<>>]
        h == RunEnd(s, p, {HASH})
        w == RunEnd(s, h, Whitespace)
    IN IF ~AtLineStart(s, p) \/ h = p \/ w = h THEN no
       ELSE IF w <= Len(s)
            THEN [matched |-> TRUE, start |-> p, end |-> LineEnd(s, w),
                  group1 |-> SubSeq(s, p, h - 1),
                  group2 |-> SubSeq(s, w, LineEnd(s, w) - 1)]
            ELSE LET q == LastNonNewline(s, h + 1, w - 1) IN
                 IF q = 0 THEN no
                 ELSE [matched |-> TRUE, start |-> p, end |-> LineEnd(s, q),
                       group1 |-> SubSeq(s, p, h - 1),
                       group2 |-> SubSeq(s, q, LineEnd(s, q) - 1)]

\* list(self._header_pattern.finditer(s)), scanning from position p.
RECURSIVE FindIter(_, _)
FindIter(s, p) ==
    IF p > Len(s) THEN <<>>
    ELSE LET m == HeaderMatchAt(s, p) IN
         IF m.matched THEN <<m>> \o FindIter(s, m.end)
         ELSE FindIter(s, p + 1)

\* ------------------------------------------------------------------------
\* _find_parent_headers
\* ------------------------------------------------------------------------
\* A variant that compares with "<=" in place of "<".
RECURSIVE FillParentsLeq(_, _, _)
FillParentsLeq(parents, current_level, header_stack) ==
    IF header_stack = <<>> THEN parents
    ELSE LET level == Head(header_stack)[1]
             header == Head(header_stack)[2]
         IN FillParentsLeq(IF level <= current_level
                           THEN DictSet(parents, HKey(level), Some(header))
                           ELSE parents,
                           current_level, Tail(header_stack))

\* The for loop over header_stack, bottom to top.
RECURSIVE FillParents(_, _, _)
FillParents(parents, current_level, header_stack) ==
    IF header_stack = <<>> THEN parents
    ELSE LET level == Head(header_stack)[1]
             header == Head(header_stack)[2]
         IN FillParents(IF level < current_level
                        THEN DictSet(parents, HKey(level), Some(header))
                        ELSE parents,
                        current_level, Tail(header_stack))

\* _find_parent_headers(current_level, header_stack): h1..h4 start as None.
find_parent_headers(current_level, header_stack) ==
    FillParents([k \in {HKey(n) : n \in 1..4} |-> None],
                current_level, header_stack)

\* A variant that keeps every entry, the None ones too.
RemoveEmptyKeepNone(parents) == parents

\* {k: v for k, v in parents.items() if v is not None}, as a dict of str.
RemoveEmpty(parents) ==
    [k \in {x \in DOMAIN parents : parents[x] # None} |-> parents[k].val]

\* ------------------------------------------------------------------------
\* The body of the for loop of split_text
\* ------------------------------------------------------------------------
\* for token, original in replacement_map.items():
\*     section_text = section_text.replace(token, original)
RECURSIVE Restore(_, _)
Restore(section_text, items) ==
    IF items = <<>> THEN section_text
    ELSE Restore(Replace(section_text, Head(items)[1], Head(items)[2]),
                 Tail(items))

\* A variant that leaves the entries of the current depth (">" for ">=").
RECURSIVE PopClosedStrict(_, _)
PopClosedStrict(header_stack, current_level) ==
    IF header_stack # <<>> /\ header_stack[Len(header_stack)][1] > current_level
    THEN PopClosedStrict(SubSeq(header_stack, 1, Len(header_stack) - 1),
                         current_level)
    ELSE header_stack

\* A variant that pops at most once ("if" in place of "while").
PopClosedOnce(header_stack, current_level) ==
    IF header_stack # <<>> /\ header_stack[Len(header_stack)][1] >= current_level
    THEN SubSeq(header_stack, 1, Len(header_stack) - 1)
    ELSE header_stack

\* while header_stack and header_stack[-1][0] >= current_level: pop()
RECURSIVE PopClosed(_, _)
PopClosed(header_stack, current_level) ==
    IF header_stack # <<>> /\ header_stack[Len(header_stack)][1] >= current_level
    THEN PopClosed(SubSeq(header_stack, 1, Len(header_stack) - 1), current_level)
    ELSE header_stack

\* processed_text[start_pos:end_pos].strip() for the k-th match (1-based).
SectionSpan(s, hs, k) ==
    LET start_pos == hs[k].end
        end_pos == IF k + 1 <= Len(hs) THEN hs[k + 1].start ELSE Len(s) + 1
    IN Strip(SubSeq(s, start_pos, end_pos - 1))

\* A variant that caps the level at the four tracked depths.
MarkdownSectionCapped(header, text, header_level, parent_headers) ==
    [section_header |-> header,
     section_text |-> text,
     header_level |-> Min(header_level, 4),
     metadata |-> [parents |-> RemoveEmpty(parent_headers)]]

\* MarkdownSection.create(...) followed by the pruning of empty parents.
MarkdownSection(header, text, header_level, parent_headers) ==
    [section_header |-> header,
     section_text |-> text,
     header_level |-> header_level,
     metadata |-> [parents |-> RemoveEmpty(parent_headers)]]

\* The body of "for i, match in enumerate(headers)" for the k-th match
\* (1-based): the new header_stack and the MarkdownSection appended.
LoopBody(s, map, hs, k, header_stack) ==
    LET match == hs[k]
        header_text == Strip(match.group2)
        current_level == Len(match.group1)
        section_text == Restore(SectionSpan(s, hs, k), map)
        stack == Append(PopClosed(header_stack, current_level),
                        <<current_level, header_text>>)
        parent_headers == find_parent_headers(current_level, stack)
    IN [header_stack |-> stack,
        section |-> MarkdownSection(header_text, section_text, current_level,
                                    parent_headers)]

\* The whole for loop, from the k-th match on.
RECURSIVE Loop(_, _, _, _, _, _)
Loop(s, map, hs, k, header_stack, secs) ==
    IF k > Len(hs) THEN secs
    ELSE LET r == LoopBody(s, map, hs, k, header_stack) IN
         Loop(s, map, hs, k + 1, r.header_stack, Append(secs, r.section))

\* split_text(text) as a function of its argument.
split_text(s) ==
    IF Strip(s) = <<>> THEN <<>>
    ELSE LET r == process_code_blocks(s) IN
         Loop(r.text, r.map, FindIter(r.text, 1), 1, <<>>, <<>>)

\* MarkdownSection.to_markdown
to_markdown(sec) ==
    Marks(sec.header_level) \o <<" ">> \o sec.section_header
        \o <<NL, NL>> \o sec.section_text

\* MarkdownSection.to_dict: asdict(self), one key per field of the dataclass.
to_dict(sec) ==
    [section_header |-> sec.section_header,
     section_text |-> sec.section_text,
     header_level |-> sec.header_level,
     metadata |-> [parents |-> sec.metadata.parents]]

\* ------------------------------------------------------------------------
\* The splitter of the components module
\* ------------------------------------------------------------------------
\* _find_parent_headers of the components module.
components_find_parent_headers(current_level, header_stack) ==
    FillParents([k \in {HKey(n) : n \in 1..4} |-> None],
                current_level, header_stack)

\* _process_code_blocks of the components module.
components_process_code_blocks(s) == SubCodeBlocks(s, 1, <<>>, 0, <<>>)

\* while header_stack and header_stack[-1][0] >= current_level: pop()
RECURSIVE components_PopClosed(_, _)
components_PopClosed(header_stack, current_level) ==
    IF header_stack # <<>> /\ header_stack[Len(header_stack)][1] >= current_level
    THEN components_PopClosed(SubSeq(header_stack, 1, Len(header_stack) - 1),
                              current_level)
    ELSE header_stack

\* MarkdownSection.create(...) as the components module uses it, followed
\* by the pruning of the None parents: four fields, metadata a dict with
\* the one key parents.
components_MarkdownSection(header, text, header_level, parent_headers) ==
    [section_header |-> header,
     section_text |-> text,
     header_level |-> header_level,
     metadata |-> [parents |->
         [k \in {x \in DOMAIN parent_headers : parent_headers[x] # None}
             |-> parent_headers[k].val]]]

\* The body of the for loop of the components module for the k-th match.
components_LoopBody(s, map, hs, k, header_stack) ==
    LET match == hs[k]
        header_text == Strip(match.group2)
        current_level == Len(match.group1)
        start_pos == match.end
        end_pos == IF k + 1 <= Len(hs) THEN hs[k + 1].start ELSE Len(s) + 1
        section_text == Restore(Strip(SubSeq(s, start_pos, end_pos - 1)), map)
        stack == Append(components_PopClosed(header_stack, current_level),
                        <<current_level, header_text>>)
        parent_headers == components_find_parent_headers(current_level, stack)
    IN [header_stack |-> stack,
        section |-> components_MarkdownSection(header_text, section_text,
                                               current_level, parent_headers)]

\* The for loop of the components module, from the k-th match on.
RECURSIVE components_Loop(_, _, _, _, _, _)
components_Loop(s, map, hs, k, header_stack, secs) ==
    IF k > Len(hs) THEN secs
    ELSE LET r == components_LoopBody(s, map, hs, k, header_stack) IN
         components_Loop(s, map, hs, k + 1, r.header_stack,
                         Append(secs, r.section))

\* split_text(text) of the components module as a function of its argument.
components_split_text(s) ==
    IF Strip(s) = <<>> THEN <<>>
    ELSE LET r == components_process_code_blocks(s) IN
         components_Loop(r.text, r.map, FindIter(r.text, 1), 1, <<>>, <<>>)

\* ------------------------------------------------------------------------
\* Input documents
\* ------------------------------------------------------------------------
Letters == <<"a", "b", "c", "d", "e", "f", "g", "i">>

\* All sequences over S of length lo..hi.
SeqsOf(S, lo, hi) == UNION {[1..n -> S] : n \in lo..hi}

\* Documents made of header lines only: the k-th line has depth ds[k] and
\* a text of its own, the k-th letter.
HeaderLine(d, k) == Marks(d) \o <<" ", Letters[k]>>

HeaderDocsOf(depths, n) ==
    {Join([k \in 1..Len(ds) |-> HeaderLine(ds[k], k)]) :
        ds \in SeqsOf(depths, 0, n)}

HeaderDocs ==
    HeaderDocsOf(1..MaxNest, MaxHeaders) \cup HeaderDocsOf(1..MaxDepth, MaxDeep)

\* Documents made of arbitrary lines: headers, bare marks, marks followed
\* by blanks only, prose, blank lines, fences and indented comments.
LineKinds ==
    {<<HASH, " ", "a">>,
     <<HASH>>,
     <<HASH, " ", " ">>,
     <<"x">>,
     <<>>,
     FENCE,
     <<" ", " ", HASH, " ", "c">>}

TextDocs == {Join(ls) : ls \in SeqsOf(LineKinds, 1, MaxLines)}

\* Documents with a fenced block under a header: the opening fence on a
\* line of its own or at the end of the header line, an optional language
\* tag, body lines that are comments (also indented, also shaped like a
\* token), prose or blank, and after the block nothing, a line, or a
\* second block with one comment line.
BodyKinds ==
    {<<HASH, " ", "a">>,
     <<" ", HASH, "c">>,
     <<HASH, " ">> \o Token(1),
     <<"x">>,
     <<>>}

BlockDocs ==
    {Join(open \o body \o <<FENCE>> \o after) :
        open \in {<<HeaderLine(1, 1), FENCE \o tag>> : tag \in {<<>>, <<"p", "y">>}}
                     \cup {<<HeaderLine(1, 1) \o <<" ">> \o FENCE>>},
        body \in SeqsOf(BodyKinds, 1, MaxBody),
        after \in {<<>>, <<HeaderLine(2, 2)>>, <<<<"x">>>>,
                   <<FENCE, <<HASH, " ", "a">>, FENCE>>}}

\* Documents of whitespace only, the empty document among them.
BlankDocs == SeqsOf({" ", "\t", NL}, 0, MaxBlank)

Docs == HeaderDocs \cup TextDocs \cup BlockDocs \cup BlankDocs

\* The documents of the calls that run at once: short header documents, two
\* with a commented block, and a blank one.
ParDocs ==
    HeaderDocsOf(1..MaxParDepth, MaxParHeaders)
        \cup {Join(<<HeaderLine(1, 1), FENCE, <<HASH, " ", "a">>, FENCE>>),
              Join(<<HeaderLine(2, 2), FENCE \o <<"p", "y">>,
                     <<HASH, " ", "b">>, <<HASH, " ", "c">>, FENCE>>),
              <<" ">>}

\* The contents of the files that from_file is given: short documents of
\* each family, and one with a commented block.
FileDocs ==
    HeaderDocsOf(1..MaxNest, MaxFileLines)
        \cup {Join(ls) : ls \in SeqsOf(LineKinds, 1, MaxFileLines)}
        \cup BlankDocs
        \cup {Join(<<HeaderLine(1, 1), FENCE \o <<"p", "y">>,
                     <<HASH, " ", "a">>, FENCE>>)}

\* ------------------------------------------------------------------------
\* State of one call of split_text
\* ------------------------------------------------------------------------
VARIABLES
    text,             \* the argument of split_text
    pc,               \* "start", "scan", "loop" or "done"
    processed_text,   \* the masked text
    replacement_map,  \* token -> original line, in insertion order
    counter,          \* the counter of _process_code_blocks on its return
    headers,          \* list(self._header_pattern.finditer(processed_text))
    i,                \* the number of headers the loop has processed
    header_stack,     \* list of <<level, header text>>
    sections          \* the list that split_text returns

svars == <<text, pc, processed_text, replacement_map, counter, headers, i,
           header_stack, sections>>

\* ------------------------------------------------------------------------
\* State of one call of from_file, and of the file system under it
\* ------------------------------------------------------------------------
VARIABLES
    variant,          \* "utils" or "components": which module's from_file
    path_kind,        \* "missing", "dir" or "file": what filepath names
    content,          \* the decoded content of the file
    fpc,              \* position in from_file; "idle" outside of a call
    handle,           \* "none", "open" or "closed": the file object f
    calls,            \* the file system operations made so far, in order
    error,            \* the exception raised and not handled; "none"
    read_error        \* the exception that f.read() raised; "none"

fvars == <<variant, path_kind, content, fpc, handle, calls, error, read_error>>

\* ------------------------------------------------------------------------
\* State of one call of process_text
\* ------------------------------------------------------------------------
VARIABLES
    section,          \* the Section object passed to process_text
    given,            \* the value of that object when the call began
    attempts,         \* retry_config.attempts
    attempt,          \* the calls of _normalize_unicode made so far
    npc,              \* position in process_text; "idle" outside of a call
    response,         \* the generation response of the last remote call
    outcome,          \* the outcome of the last attempt, as tenacity sees it
    result            \* the value process_text returned

nvars == <<section, given, attempts, attempt, npc, response, outcome, result>>

\* ------------------------------------------------------------------------
\* State of several calls of split_text under way at once
\* ------------------------------------------------------------------------
VARIABLES
    self_state,       \* instance -> the attributes of that MarkdownSplitter
    inst,             \* caller -> the instance it calls split_text on
    frame             \* caller -> the argument and the locals of its call

pvars == <<self_state, inst, frame>>

vars == <<svars, fvars, nvars, pvars>>

\* No concurrent calls are under way.
ParIdle ==
    /\ self_state = <<>>
    /\ inst = <<>>
    /\ frame = <<>>

\* No call of from_file is under way.
FileIdle ==
    /\ variant = "utils"
    /\ path_kind = "file"
    /\ content = <<>>
    /\ fpc = "idle"
    /\ handle = "none"
    /\ calls = <<>>
    /\ error = "none"
    /\ read_error = "none"

\* No call of process_text is under way.
NormIdle ==
    /\ section = None
    /\ given = None
    /\ attempts = 1
    /\ attempt = 0
    /\ npc = "idle"
    /\ response = None
    /\ outcome = None
    /\ result = None

Init ==
    /\ text \in Docs
    /\ pc = "start"
    /\ processed_text = <<>>
    /\ replacement_map = <<>>
    /\ counter = 0
    /\ headers = <<>>
    /\ i = 0
    /\ header_stack = <<>>
    /\ sections = <<>>
    /\ FileIdle
    /\ NormIdle
    /\ ParIdle

\* if not text.strip(): return []
ReturnEmpty ==
    /\ pc = "start"
    /\ Strip(text) = <<>>
    /\ pc' = "done"
    /\ UNCHANGED <<text, processed_text, replacement_map, counter, headers, i,
                   header_stack, sections>>
    /\ UNCHANGED <<fvars, nvars, pvars>>

\* A variant without the early return for blank input.
ProcessCodeBlocksAlways ==
    /\ pc = "start"
    /\ LET r == process_code_blocks(text) IN
        /\ processed_text' = r.text
        /\ replacement_map' = r.map
        /\ counter' = r.counter
    /\ pc' = "scan"
    /\ UNCHANGED <<text, headers, i, header_stack, sections>>
    /\ UNCHANGED <<fvars, nvars, pvars>>

\* processed_text, replacement_map = self._process_code_blocks(text)
ProcessCodeBlocks ==
    /\ pc = "start"
    /\ Strip(text) # <<>>
    /\ LET r == process_code_blocks(text) IN
        /\ processed_text' = r.text
        /\ replacement_map' = r.map
        /\ counter' = r.counter
    /\ pc' = "scan"
    /\ UNCHANGED <<text, headers, i, header_stack, sections>>
    /\ UNCHANGED <<fvars, nvars, pvars>>

\* headers = list(self._header_pattern.finditer(processed_text));
\* sections = []; header_stack = []
FindHeaders ==
    /\ pc = "scan"
    /\ headers' = FindIter(processed_text, 1)
    /\ i' = 0
    /\ header_stack' = <<>>
    /\ sections' = <<>>
    /\ pc' = "loop"
    /\ UNCHANGED <<text, processed_text, replacement_map, counter>>
    /\ UNCHANGED <<fvars, nvars, pvars>>

\* A variant that inserts the new section at the front of the list.
ProcessHeaderPrepend ==
    /\ pc = "loop"
    /\ i < Len(headers)
    /\ LET r == LoopBody(processed_text, replacement_map, headers, i + 1,
                         header_stack)
       IN /\ header_stack' = r.header_stack
          /\ sections' = <<r.section>> \o sections
    /\ i' = i + 1
    /\ UNCHANGED <<text, pc, processed_text, replacement_map, counter, headers>>
    /\ UNCHANGED <<fvars, nvars, pvars>>

\* One iteration of "for i, match in enumerate(headers)".
ProcessHeader ==
    /\ pc = "loop"
    /\ i < Len(headers)
    /\ LET r == LoopBody(processed_text, replacement_map, headers, i + 1,
                         header_stack)
       IN /\ header_stack' = r.header_stack
          /\ sections' = Append(sections, r.section)
    /\ i' = i + 1
    /\ UNCHANGED <<text, pc, processed_text, replacement_map, counter, headers>>
    /\ UNCHANGED <<fvars, nvars, pvars>>

\* return sections
Return ==
    /\ pc = "loop"
    /\ i = Len(headers)
    /\ pc' = "done"
    /\ UNCHANGED <<text, processed_text, replacement_map, counter, headers, i,
                   header_stack, sections>>
    /\ UNCHANGED <<fvars, nvars, pvars>>

Next ==
    \/ ReturnEmpty
    \/ ProcessCodeBlocks
    \/ FindHeaders
    \/ ProcessHeader
    \/ Return

Spec == Init /\ [][Next]_vars

\* ------------------------------------------------------------------------
\* from_file(filepath, encoding)
\* ------------------------------------------------------------------------
\* The errors that opening an existing regular file, reading it and
\* decoding it can raise, and one that can strike while split_text runs.
OpenErrors == {"PermissionError"}
ReadErrors == {"UnicodeDecodeError", "OSError"}
SplitErrors == {"MemoryError"}

\* A call of from_file of either module on a path of any kind.
InitFile ==
    /\ variant \in {"utils", "components"}
    /\ path_kind \in {"missing", "dir", "file"}
    /\ content \in (IF path_kind = "file" THEN FileDocs ELSE {<<>>})
    /\ fpc = "exists"
    /\ handle = "none"
    /\ calls = <<>>
    /\ error = "none"
    /\ read_error = "none"
    /\ text = <<>>
    /\ pc = "idle"
    /\ processed_text = <<>>
    /\ replacement_map = <<>>
    /\ counter = 0
    /\ headers = <<>>
    /\ i = 0
    /\ header_stack = <<>>
    /\ sections = <<>>
    /\ NormIdle
    /\ ParIdle

\* Where an exception raised inside the try block of the components module
\* goes: to its except clause; in the utils module, out of from_file.
AfterError == IF variant = "components" THEN "except" ELSE "raised"

\* if not path.exists(): raise FileNotFoundError(...)
CheckExists ==
    /\ fpc = "exists"
    /\ calls' = Append(calls, "exists")
    /\ IF path_kind = "missing"
       THEN error' = "FileNotFoundError" /\ fpc' = "raised"
       ELSE error' = error /\ fpc' = "is_dir"
    /\ UNCHANGED <<variant, path_kind, content, handle, read_error>>
    /\ UNCHANGED <<svars, nvars, pvars>>

\* A variant without the directory check: the path goes straight to open.
CheckIsDirSkipped ==
    /\ fpc = "is_dir"
    /\ fpc' = "open"
    /\ UNCHANGED <<variant, path_kind, content, handle, calls, error, read_error>>
    /\ UNCHANGED <<svars, nvars, pvars>>

\* if path.is_dir(): raise IsADirectoryError(...)
CheckIsDir ==
    /\ fpc = "is_dir"
    /\ calls' = Append(calls, "is_dir")
    /\ IF path_kind = "dir"
       THEN error' = "IsADirectoryError" /\ fpc' = "raised"
       ELSE error' = error /\ fpc' = "open"
    /\ UNCHANGED <<variant, path_kind, content, handle, read_error>>
    /\ UNCHANGED <<svars, nvars, pvars>>

\* path.open("r", encoding=encoding): gives the file object, or raises (on
\* a directory always).
Open ==
    /\ fpc = "open"
    /\ calls' = Append(calls, "open")
    /\ \/ /\ path_kind = "file"
          /\ handle' = "open"
          /\ fpc' = "read"
          /\ error' = error
       \/ /\ \E e \in (IF path_kind = "dir" THEN {"IsADirectoryError"}
                       ELSE OpenErrors) : error' = e
          /\ handle' = handle
          /\ fpc' = AfterError
    /\ UNCHANGED <<variant, path_kind, content, read_error>>
    /\ UNCHANGED <<svars, nvars, pvars>>

\* f.read(): the whole decoded content, handed to split_text, or an error.
Read ==
    /\ fpc = "read"
    /\ calls' = Append(calls, "read")
    /\ \/ /\ text' = content
          /\ pc' = "start"
          /\ fpc' = "split"
          /\ UNCHANGED <<error, read_error>>
       \/ /\ \E e \in ReadErrors : error' = e /\ read_error' = e
          /\ fpc' = "exit"
          /\ UNCHANGED <<text, pc>>
    /\ UNCHANGED <<variant, path_kind, content, handle>>
    /\ UNCHANGED <<processed_text, replacement_map, counter, headers, i,
                   header_stack, sections>>
    /\ UNCHANGED <<nvars, pvars>>

\* An exception raised while splitter.split_text(...) runs.
SplitRaises ==
    /\ fpc = "split"
    /\ pc \in {"start", "scan", "loop"}
    /\ \E e \in SplitErrors : error' = e
    /\ pc' = "aborted"
    /\ fpc' = "exit"
    /\ UNCHANGED <<variant, path_kind, content, handle, calls, read_error>>
    /\ UNCHANGED <<text, processed_text, replacement_map, counter, headers, i,
                   header_stack, sections>>
    /\ UNCHANGED <<nvars, pvars>>

\* A variant that closes the file on the normal path only.
ExitWithoutClose ==
    /\ \/ fpc = "split" /\ pc = "done"
       \/ fpc = "exit"
    /\ IF error = "none"
       THEN /\ calls' = Append(calls, "close")
            /\ handle' = "closed"
            /\ fpc' = "returned"
       ELSE /\ UNCHANGED <<calls, handle>>
            /\ fpc' = AfterError
    /\ UNCHANGED <<variant, path_kind, content, error, read_error>>
    /\ UNCHANGED <<svars, nvars, pvars>>

\* The end of the with block: f is closed, then from_file returns the
\* sections or the exception goes on.
ExitWith ==
    /\ \/ fpc = "split" /\ pc = "done"
       \/ fpc = "exit"
    /\ calls' = Append(calls, "close")
    /\ handle' = "closed"
    /\ fpc' = IF error = "none" THEN "returned" ELSE AfterError
    /\ UNCHANGED <<variant, path_kind, content, error, read_error>>
    /\ UNCHANGED <<svars, nvars, pvars>>

\* except Exception as e: logger.error(...); raise
LogAndReraise ==
    /\ fpc = "except"
    /\ fpc' = "raised"
    /\ UNCHANGED <<variant, path_kind, content, handle, calls, error, read_error>>
    /\ UNCHANGED <<svars, nvars, pvars>>

NextFile ==
    \/ CheckExists
    \/ CheckIsDir
    \/ Open
    \/ Read
    \/ ReturnEmpty
    \/ ProcessCodeBlocks
    \/ FindHeaders
    \/ ProcessHeader
    \/ Return
    \/ SplitRaises
    \/ ExitWith
    \/ LogAndReraise

SpecFile == InitFile /\ [][NextFile]_vars

\* A call of split_text on a document, or a call of from_file on a path.
InitVariants == Init \/ InitFile

SpecVariants == InitVariants /\ [][NextFile]_vars

\* ------------------------------------------------------------------------
\* Calls of split_text that run at once, on one instance or on two
\* ------------------------------------------------------------------------
Callers == {"A", "B"}
Instances == {1, 2}

\* re.compile(r"^(#+)\s+(.+)$", re.MULTILINE), the pattern that FindIter
\* and HeaderMatchAt model.
HeaderPattern == "^(#+)\\s+(.+)$ MULTILINE"

\* MarkdownSplitter(): the one attribute that __init__ sets.
NewInstance == [header_pattern |-> HeaderPattern]

\* The argument and the locals of a call of split_text that has not begun.
NewFrame(t) ==
    [text |-> t,
     pc |-> "start",
     processed_text |-> <<>>,
     replacement_map |-> <<>>,
     counter |-> 0,
     headers |-> <<>>,
     i |-> 0,
     header_stack |-> <<>>,
     sections |-> <<>>]

\* Caller A calls on instance 1, caller B on the same instance or on the
\* other one, each with a document of its own.
InitPar ==
    /\ self_state = [x \in Instances |-> NewInstance]
    /\ inst \in {f \in [Callers -> Instances] : f["A"] = 1}
    /\ frame \in [Callers -> {NewFrame(t) : t \in ParDocs}]
    /\ text = <<>>
    /\ pc = "idle"
    /\ processed_text = <<>>
    /\ replacement_map = <<>>
    /\ counter = 0
    /\ headers = <<>>
    /\ i = 0
    /\ header_stack = <<>>
    /\ sections = <<>>
    /\ FileIdle
    /\ NormIdle

\* if not text.strip(): return []
ParReturnEmpty(c) ==
    /\ frame[c].pc = "start"
    /\ Strip(frame[c].text) = <<>>
    /\ frame' = [frame EXCEPT ![c].pc = "done"]
    /\ UNCHANGED <<self_state, inst>>
    /\ UNCHANGED <<svars, fvars, nvars>>

\* processed_text, replacement_map = self._process_code_blocks(text): the
\* map and the counter are locals of _process_code_blocks.
ParProcessCodeBlocks(c) ==
    /\ frame[c].pc = "start"
    /\ Strip(frame[c].text) # <<>>
    /\ LET r == process_code_blocks(frame[c].text) IN
        frame' = [frame EXCEPT ![c].processed_text = r.text,
                               ![c].replacement_map = r.map,
                               ![c].counter = r.counter,
                               ![c].pc = "scan"]
    /\ UNCHANGED <<self_state, inst>>
    /\ UNCHANGED <<svars, fvars, nvars>>

\* headers = list(self._header_pattern.finditer(processed_text));
\* sections = []; header_stack = []: the pattern is read, nothing written.
ParFindHeaders(c) ==
    /\ frame[c].pc = "scan"
    /\ self_state[inst[c]].header_pattern = HeaderPattern
    /\ frame' = [frame EXCEPT ![c].headers = FindIter(frame[c].processed_text, 1),
                               ![c].i = 0,
                               ![c].header_stack = <<>>,
                               ![c].sections = <<>>,
                               ![c].pc = "loop"]
    /\ UNCHANGED <<self_state, inst>>
    /\ UNCHANGED <<svars, fvars, nvars>>

\* A variant that keeps the header stack on the instance.
ParProcessHeaderShared(c) ==
    /\ frame[c].pc = "loop"
    /\ frame[c].i < Len(frame[c].headers)
    /\ LET me == self_state[inst[c]]
           kept == IF "header_stack" \in DOMAIN me THEN me.header_stack ELSE <<>>
           r == LoopBody(frame[c].processed_text, frame[c].replacement_map,
                         frame[c].headers, frame[c].i + 1, kept)
       IN /\ frame' = [frame EXCEPT
                          ![c].header_stack = r.header_stack,
                          ![c].sections = Append(frame[c].sections, r.section),
                          ![c].i = frame[c].i + 1]
          /\ self_state' = [self_state EXCEPT ![inst[c]] =
                               [header_pattern |-> me.header_pattern,
                                header_stack |-> r.header_stack]]
    /\ UNCHANGED inst
    /\ UNCHANGED <<svars, fvars, nvars>>

\* One iteration of "for i, match in enumerate(headers)" of a call.
ParProcessHeader(c) ==
    /\ frame[c].pc = "loop"
    /\ frame[c].i < Len(frame[c].headers)
    /\ LET r == LoopBody(frame[c].processed_text, frame[c].replacement_map,
                         frame[c].headers, frame[c].i + 1,
                         frame[c].header_stack)
       IN frame' = [frame EXCEPT
                       ![c].header_stack = r.header_stack,
                       ![c].sections = Append(frame[c].sections, r.section),
                       ![c].i = frame[c].i + 1]
    /\ UNCHANGED <<self_state, inst>>
    /\ UNCHANGED <<svars, fvars, nvars>>

\* return sections
ParReturn(c) ==
    /\ frame[c].pc = "loop"
    /\ frame[c].i = Len(frame[c].headers)
    /\ frame' = [frame EXCEPT ![c].pc = "done"]
    /\ UNCHANGED <<self_state, inst>>
    /\ UNCHANGED <<svars, fvars, nvars>>

\* Any caller takes its next step.
NextPar ==
    \E c \in Callers :
        \/ ParReturnEmpty(c)
        \/ ParProcessCodeBlocks(c)
        \/ ParFindHeaders(c)
        \/ ParProcessHeader(c)
        \/ ParReturn(c)

SpecPar == InitPar /\ [][NextPar]_vars

\* ------------------------------------------------------------------------
\* UnicodeReplaceProcessor.process_text(section)
\* ------------------------------------------------------------------------
\* SectionMetadata(...): the fields left out take their defaults.
SectionMetadata(token_count, model_version, normalized, original_content, parents) ==
    [token_count |-> token_count,
     model_version |-> model_version,
     normalized |-> normalized,
     error |-> None,
     original_content |-> original_content,
     parents |-> parents]

\* MarkdownContent(section_header=..., section_text=...)
MarkdownContent(section_header, section_text) ==
    [section_header |-> section_header, section_text |-> section_text]

\* Section(section_header=..., section_text=..., header_level=..., metadata=...)
Section(section_header, section_text, header_level, metadata) ==
    [section_header |-> section_header,
     section_text |-> section_text,
     header_level |-> header_level,
     metadata |-> metadata]

\* The sections handed to the processor: as the splitter builds them, with
\* the metadata defaults and some parents.
InputSections ==
    {Section(h, t, l, SectionMetadata(None, None, FALSE, None, ps)) :
        h \in {<<"a">>, <<"b">>},
        t \in {<<>>, <<"x">>},
        l \in 1..MaxNest,
        ps \in {<<>>, (HKey(1) :> <<"c">>)}}

\* What generation_response.text holds: text that is not JSON, or a JSON
\* object with some of the two keys.
NotJson == [ok |-> FALSE, obj |-> <<>>]
JsonObjects ==
    {[ok |-> TRUE, obj |-> o] :
        o \in UNION {[K -> {<<"a">>, <<"z">>}] :
                        K \in SUBSET {"section_header", "section_text"}}}

\* What self.client.models.generate_content(...) does: it raises, with the
\* message of the client library, or returns a response.
RemoteOutcomes ==
    {[raised |-> TRUE, message |-> m, json |-> NotJson,
      usage |-> None, model_version |-> None] :
        m \in {"503 UNAVAILABLE", "timed out"}}
    \cup
    {[raised |-> FALSE, message |-> "", json |-> j,
      usage |-> u, model_version |-> v] :
        j \in {NotJson} \cup JsonObjects,
        u \in {None, Some(7)},
        v \in {None, Some("gemini-2.0-flash")}}

\* str(e) of the exception that the body of _create_normalized_section
\* raises on this response: json.loads, then the two subscripts in order.
ExtractionError(r) ==
    IF ~r.json.ok THEN "Expecting value: line 1 column 1 (char 0)"
    ELSE IF "section_header" \notin DOMAIN r.json.obj THEN "'section_header'"
    ELSE IF "section_text" \notin DOMAIN r.json.obj THEN "'section_text'"
    ELSE ""

\* The response is one that _create_normalized_section builds a Section of.
Extractable(r) == ExtractionError(r) = ""

\* response_usage.get("candidates_token_count", 0)
TokenCount(r) == IF r.usage = None THEN Some(0) ELSE r.usage

\* A call of process_text on a section, with a retry configuration.
InitNorm ==
    /\ section \in InputSections
    /\ given = section
    /\ attempts \in 1..MaxAttempts
    /\ attempt = 0
    /\ npc = "call"
    /\ response = None
    /\ outcome = None
    /\ result = None
    /\ text = <<>>
    /\ pc = "idle"
    /\ processed_text = <<>>
    /\ replacement_map = <<>>
    /\ counter = 0
    /\ headers = <<>>
    /\ i = 0
    /\ header_stack = <<>>
    /\ sections = <<>>
    /\ FileIdle
    /\ ParIdle

\* An attempt begins: _normalize_unicode renders the section and calls the
\* remote model, which raises or answers.
GenerateContent ==
    /\ npc = "call"
    /\ attempt' = attempt + 1
    /\ \E r \in RemoteOutcomes :
        /\ response' = r
        /\ npc' = IF r.raised THEN "except" ELSE "create"
    /\ UNCHANGED <<section, given, attempts, outcome, result>>
    /\ UNCHANGED <<svars, fvars, pvars>>

\* A variant that stores the response, not the original, as original_content.
CreateNormalizedSectionLosesOriginal ==
    /\ npc = "create"
    /\ Extractable(response)
    /\ outcome' =
           [raised |-> FALSE,
            value |-> Section(response.json.obj["section_header"],
                              response.json.obj["section_text"],
                              section.header_level,
                              SectionMetadata(
                                  TokenCount(response),
                                  response.model_version,
                                  TRUE,
                                  Some(MarkdownContent(
                                      response.json.obj["section_header"],
                                      response.json.obj["section_text"])),
                                  section.metadata.parents))]
    /\ npc' = "outcome"
    /\ UNCHANGED <<section, given, attempts, attempt, response, result>>
    /\ UNCHANGED <<svars, fvars, pvars>>

\* The try block of _create_normalized_section: a new Section of the
\* response's header and text, with the original's level and parents.
CreateNormalizedSection ==
    /\ npc = "create"
    /\ Extractable(response)
    /\ outcome' =
           [raised |-> FALSE,
            value |-> Section(response.json.obj["section_header"],
                              response.json.obj["section_text"],
                              section.header_level,
                              SectionMetadata(
                                  TokenCount(response),
                                  response.model_version,
                                  TRUE,
                                  Some(MarkdownContent(section.section_header,
                                                       section.section_text)),
                                  section.metadata.parents))]
    /\ npc' = "outcome"
    /\ UNCHANGED <<section, given, attempts, attempt, response, result>>
    /\ UNCHANGED <<svars, fvars, pvars>>

\* The except clause of _create_normalized_section:
\* original_section.metadata.error = str(e); return original_section
CreateExcept ==
    /\ npc = "create"
    /\ ~Extractable(response)
    /\ section' = [section EXCEPT
                      !.metadata.error = Some(ExtractionError(response))]
    /\ outcome' = [raised |-> FALSE, value |-> section']
    /\ npc' = "outcome"
    /\ UNCHANGED <<given, attempts, attempt, response, result>>
    /\ UNCHANGED <<svars, fvars, pvars>>

\* A variant of the except clause that lets the exception go on.
NormalizeExceptReraise ==
    /\ npc = "except"
    /\ outcome' = [raised |-> TRUE, value |-> None]
    /\ npc' = "outcome"
    /\ UNCHANGED <<section, given, attempts, attempt, response, result>>
    /\ UNCHANGED <<svars, fvars, pvars>>

\* The except clause of _normalize_unicode:
\* section.metadata.error = str(e); return section
NormalizeExcept ==
    /\ npc = "except"
    /\ section' = [section EXCEPT !.metadata.error = Some(response.message)]
    /\ outcome' = [raised |-> FALSE, value |-> section']
    /\ npc' = "outcome"
    /\ UNCHANGED <<given, attempts, attempt, response, result>>
    /\ UNCHANGED <<svars, fvars, pvars>>

\* The tenacity wrapper of process_text on the outcome of an attempt: a
\* returned value is returned; an exception is retried until
\* stop_after_attempt(attempts), then retry_error_callback re-raises it
\* (state.outcome.result()).
TenacityOutcome ==
    /\ npc = "outcome"
    /\ IF ~outcome.raised
       THEN result' = outcome.value /\ npc' = "returned"
       ELSE /\ result' = result
            /\ npc' = IF attempt < attempts THEN "call" ELSE "raised"
    /\ UNCHANGED <<section, given, attempts, attempt, response, outcome>>
    /\ UNCHANGED <<svars, fvars, pvars>>

NextNorm ==
    \/ GenerateContent
    \/ CreateNormalizedSection
    \/ CreateExcept
    \/ NormalizeExcept
    \/ TenacityOutcome

SpecNorm == InitNorm /\ [][NextNorm]_vars

\* ------------------------------------------------------------------------
\* Vocabulary of the properties
\* ------------------------------------------------------------------------
\* The depth and the trimmed text of the k-th header the scan found.
HLevel(k) == Len(headers[k].group1)
HText(k) == Strip(headers[k].group2)

\* The parents mapping and the level of the k-th section.
Parents(k) == sections[k].metadata.parents
Level(k) == sections[k].header_level

\* The values of a mapping.
Range(f) == {f[x] : x \in DOMAIN f}

\* The headers j before the k-th that have depth n and no header of
\* depth <= n strictly between them and the k-th.
OpenAncestors(k, n) ==
    {j \in 1..(k - 1) :
        /\ HLevel(j) = n
        /\ \A m \in (j + 1)..(k - 1) : HLevel(m) > n}

\* No two headers of the document have the same text, so that a parents
\* value names one header.
DistinctTexts ==
    \A j, k \in 1..Len(headers) : j # k => HText(j) # HText(k)

\* The levels of the sections, in order.
Levels == [k \in 1..Len(sections) |-> Level(k)]

C2_NoKeyAtOrBelowLevel ==
    \A k \in 1..Len(sections) :
        /\ DOMAIN Parents(k) \subseteq {HKey(d) : d \in 1..(Level(k) - 1)}
        /\ HKey(Level(k)) \notin DOMAIN Parents(k)
        /\ Level(k) = 1 => Parents(k) = <<>>

\* A level-1 section that follows deeper ones, and a deeper section that
\* has parents.
C2_Witness ==
    /\ pc = "done"
    /\ \E j, k \in 1..Len(sections) :
        /\ j < k
        /\ Level(j) = 3 /\ DOMAIN Parents(j) = {HKey(1), HKey(2)}
        /\ Level(k) = 1 /\ DOMAIN Parents(k) = {}

\* ------------------------------------------------------------------------
\* C3: every key of every parents mapping is one of h1, h2, h3, h4, also in
\* documents with headers of depth 5 or more.
\* ------------------------------------------------------------------------
C3_OnlyH1ToH4 ==
    \A k \in 1..Len(sections) : DOMAIN Parents(k) \subseteq {HKey(n) : n \in 1..4}

\* ------------------------------------------------------------------------
\* C4: two headers A, B of the same depth d with no header of depth < d
\* between them do not nest: neither has an entry for the other, neither
\* has a key h{d}, and their parents mappings are equal.
\* ------------------------------------------------------------------------
Siblings(a, b) ==
    /\ a < b
    /\ Level(a) = Level(b)
    /\ \A m \in (a + 1)..(b - 1) : Level(m) >= Level(a)

C4_SiblingsDoNotNest ==
    \A a, b \in 1..Len(sections) :
        Siblings(a, b) =>
            /\ Parents(a) = Parents(b)
            /\ HKey(Level(a)) \notin DOMAIN Parents(a)
            /\ HKey(Level(b)) \notin DOMAIN Parents(b)
            /\ DistinctTexts =>
                /\ sections[a].section_header \notin Range(Parents(b))
                /\ sections[b].section_header \notin Range(Parents(a))

\* '# a / ## b / ### c / ## d': b and d are siblings under a, with a
\* deeper header between them.
C4_Witness ==
    /\ pc = "done"
    /\ Levels = <<1, 2, 3, 2>>
    /\ Siblings(2, 4)
    /\ Parents(4) = (HKey(1) :> <<"a">>)

\* ------------------------------------------------------------------------
\* C5: split_text returns one section per header the scan found, in
\* document order: the k-th section has the text and the depth of the k-th
\* header by position, no header is skipped or taken twice, and a section
\* once emitted is not changed by the later iterations.
\* ------------------------------------------------------------------------
\* The matches lie one after the other and none is passed over.
HeadersInOrder ==
    /\ \A k \in 1..Len(headers) :
        /\ headers[k].start < headers[k].end
        /\ k < Len(headers) => headers[k].end <= headers[k + 1].start
        /\ headers[k] = HeaderMatchAt(processed_text, headers[k].start)
    /\ \A p \in 1..Len(processed_text) :
        HeaderMatchAt(processed_text, p).matched =>
            \E k \in 1..Len(headers) :
                headers[k].start <= p /\ p < headers[k].end

OnePerHeader ==
    /\ pc \in {"loop", "done"} => HeadersInOrder
    /\ Len(sections) = i
    /\ i <= Len(headers)
    /\ pc = "done" => Len(sections) = Len(headers)
    /\ \A k \in 1..Len(sections) :
        /\ sections[k].section_header = HText(k)
        /\ sections[k].header_level = HLevel(k)

EmittedKept ==
    pc = "loop" =>
        /\ Len(sections') >= Len(sections)
        /\ SubSeq(sections', 1, Len(sections)) = sections

C5_DocumentOrder == []OnePerHeader /\ [][EmittedKept]_vars

\* Three sections emitted for the three headers a, b, c of a document.
C5_Witness ==
    /\ pc = "done"
    /\ Len(headers) = 3
    /\ [k \in 1..Len(sections) |-> sections[k].section_header]
           = <<<<"a">>, <<"b">>, <<"c">>>>
    /\ Levels = <<2, 1, 3>>

\* ------------------------------------------------------------------------
\* C7: the level of a section is the number of leading '#' of the line its
\* header starts on; it is at least 1 and is not capped.
\* ------------------------------------------------------------------------
\* The number of consecutive '#' from position p.
RECURSIVE CountMarks(_, _)
CountMarks(s, p) ==
    IF p <= Len(s) /\ s[p] = HASH THEN 1 + CountMarks(s, p + 1) ELSE 0

C7_LevelIsMarkCount ==
    \A k \in 1..Len(sections) :
        /\ AtLineStart(processed_text, headers[k].start)
        /\ Level(k) = CountMarks(processed_text, headers[k].start)
        /\ Level(k) >= 1

\* A '######' header has level 6.
C7_Witness ==
    /\ pc = "done"
    /\ \E k \in 1..Len(sections) :
        /\ Level(k) = 6
        /\ StartsWithAt(processed_text, headers[k].start, Marks(6) \o <<" ">>)

\* ------------------------------------------------------------------------
\* Lines and fenced blocks of a document, read off the text itself
\* ------------------------------------------------------------------------
\* The positions where a line starts.
LineStarts(s) == {p \in 1..Len(s) : AtLineStart(s, p)}

\* The line that starts at p, without its newline.
LineAt(s, p) == SubSeq(s, p, LineEnd(s, p) - 1)

\* A single line made of one or more '#', at least one whitespace
\* character and at least one more character.
IsHeaderLine(line) ==
    LET h == CountMarks(line, 1) IN
    /\ h >= 1
    /\ Len(line) >= h + 2
    /\ line[h + 1] \in Whitespace

\* The text of a header line: what follows the marks, trimmed.
HeaderLineText(line) == Strip(From(line, CountMarks(line, 1) + 1))

\* The elements of a finite set of integers in increasing order.
RECURSIVE Sorted(_)
Sorted(S) ==
    IF S = {} THEN <<>>
    ELSE LET lo == CHOOSE x \in S : \A y \in S : x <= y IN
         <<lo>> \o Sorted(S \ {lo})

\* The fenced blocks of s from position p on, in order, as the masking
\* pass pairs the fences.
RECURSIVE BlocksFrom(_, _)
BlocksFrom(s, p) ==
    IF p > Len(s) THEN <<>>
    ELSE LET m == CodeBlockMatchAt(s, p) IN
         IF m.matched THEN <<m>> \o BlocksFrom(s, m.end)
         ELSE BlocksFrom(s, p + 1)

\* Position p lies in a fenced block (from its opening fence to the end of
\* its closing fence).
InBlock(s, p) ==
    \E b \in Range(BlocksFrom(s, 1)) : b.start <= p /\ p < b.end

\* The comment lines among the given lines, in order.
RECURSIVE CommentsOf(_)
CommentsOf(lines) ==
    IF lines = <<>> THEN <<>>
    ELSE (IF IsCommentLine(Head(lines)) THEN <<Head(lines)>> ELSE <<>>)
             \o CommentsOf(Tail(lines))

\* The comment lines of the bodies of the given blocks, in order.
RECURSIVE CommentLines(_)
CommentLines(blocks) ==
    IF blocks = <<>> THEN <<>>
    ELSE CommentsOf(Split(Head(blocks).group1)) \o CommentLines(Tail(blocks))

\* s with every token of map replaced by its original line in one pass
\* from left to right: restored text is not looked at again.
RECURSIVE RestoreOnePass(_, _)
RestoreOnePass(s, map) ==
    IF s = <<>> THEN <<>>
    ELSE LET hits == {j \in 1..Len(map) : StartsWithAt(s, 1, map[j][1])} IN
         IF hits = {} THEN <<Head(s)>> \o RestoreOnePass(Tail(s), map)
         ELSE LET j == CHOOSE x \in hits : TRUE IN
              map[j][2] \o RestoreOnePass(From(s, Len(map[j][1]) + 1), map)

\* ------------------------------------------------------------------------
\* C6: a section is produced for a line exactly when that single line is
\* made of '#' marks, whitespace and non-empty text; so every section has a
\* non-empty header taken from its own line, and a line of marks alone does
\* not make a header of the line after it.
\* ------------------------------------------------------------------------
C6_HeaderIsOneLine ==
    pc = "done" =>
        /\ {headers[k].start : k \in 1..Len(headers)}
               = {p \in LineStarts(processed_text) :
                      IsHeaderLine(LineAt(processed_text, p))}
        /\ \A k \in 1..Len(sections) :
            /\ sections[k].section_header # <<>>
            /\ sections[k].section_header
                   = HeaderLineText(LineAt(processed_text, headers[k].start))

\* ------------------------------------------------------------------------
\* C8: a '#' line in the body of a fenced block is never a header: the
\* sections are the header lines that lie outside the fenced blocks, with
\* their levels, in order.
\* ------------------------------------------------------------------------
HeaderLinesOutsideBlocks ==
    {p \in LineStarts(text) :
        IsHeaderLine(LineAt(text, p)) /\ ~InBlock(text, p)}

C8_CodeBlockProtection ==
    pc = "done" =>
        Levels = [k \in 1..Cardinality(HeaderLinesOutsideBlocks) |->
                     CountMarks(text, Sorted(HeaderLinesOutsideBlocks)[k])]

\* ------------------------------------------------------------------------
\* C9: no section holds, in its text or in its header, a masking token that
\* the masking pass of the call introduced (a token the document itself
\* does not spell out).
\* ------------------------------------------------------------------------
C9_NoTokenInOutput ==
    \A k \in 1..Len(sections) :
        \A j \in 1..Len(replacement_map) :
            LET token == replacement_map[j][1] IN
            ~Contains(text, token) =>
                /\ ~Contains(sections[k].section_text, token)
                /\ ~Contains(sections[k].section_header, token)

\* ------------------------------------------------------------------------
\* C10: masking is reversible: the j-th token maps to the j-th comment line
\* of the block bodies, exactly as written, and the restore loop turns each
\* token of a section's text back into its line, whatever the other lines
\* contain.
\* ------------------------------------------------------------------------
C10_MaskingReversible ==
    pc \in {"loop", "done"} =>
        LET originals == CommentLines(BlocksFrom(text, 1)) IN
        /\ replacement_map =
               [j \in 1..Len(originals) |-> <<Token(j - 1), originals[j]>>]
        /\ \A k \in 1..Len(sections) :
            sections[k].section_text =
                RestoreOnePass(SectionSpan(processed_text, headers, k),
                               replacement_map)

\* ------------------------------------------------------------------------
\* C11: a fenced block whose body has no comment line is left as it is by
\* the masking pass: in a document all of whose blocks are such, the masked
\* text is the input text (opening fence, language tag, newline, body and
\* closing fence included) and the token mapping stays empty.
\* ------------------------------------------------------------------------
NoCommentInBlocks == CommentLines(BlocksFrom(text, 1)) = <<>>

C11_PlainBlockUnchanged ==
    (pc \in {"scan", "loop", "done"} /\ Strip(text) # <<>> /\ NoCommentInBlocks) =>
        /\ replacement_map = <<>>
        /\ processed_text = text

\* ------------------------------------------------------------------------
\* C12: the tokens of one call are unique: the counter starts at 0, grows
\* by one per masked line and is not set back between blocks; the j-th
\* masked line gets the token of number j - 1, the mapping has one entry
\* per masked line, each token stands once in the masked text, and no token
\* is a part of another one.
\* ------------------------------------------------------------------------
MaxCounter == 11

\* The number of places of s where t starts.
CountOcc(s, t) == Cardinality({p \in 1..Len(s) : StartsWithAt(s, p, t)})

C12_TokensUnique ==
    pc \in {"scan", "loop", "done"} =>
        LET masked == CommentLines(BlocksFrom(text, 1))
            tokens == [j \in 1..Len(replacement_map) |-> replacement_map[j][1]]
        IN
        /\ counter = Len(masked)
        /\ Len(replacement_map) = Len(masked)
        /\ \A j \in 1..Len(tokens) : tokens[j] = Token(j - 1)
        /\ \A j, k \in 1..Len(tokens) :
            j # k => tokens[j] # tokens[k] /\ ~Contains(tokens[j], tokens[k])
        /\ (\A j \in 1..Len(tokens) : ~Contains(text, tokens[j])) =>
               \A j \in 1..Len(tokens) : CountOcc(processed_text, tokens[j]) = 1
        /\ pc = "scan" =>
               \A j \in 1..Len(tokens), n \in 0..MaxCounter :
                   n # j - 1 =>
                       /\ ~Contains(Token(n), tokens[j])
                       /\ ~Contains(tokens[j], Token(n))

\* Two blocks with the same comment line: two entries, tokens 0 and 1.
C12_Witness ==
    /\ pc = "done"
    /\ Len(BlocksFrom(text, 1)) = 2
    /\ replacement_map = << <<Token(0), <<HASH, " ", "a">>>>,
                            <<Token(1), <<HASH, " ", "a">>>> >>
    /\ counter = 2

\* ------------------------------------------------------------------------
\* C13: round trip: for every section S that split_text returns,
\* split_text(S.to_markdown()) is one section with the header, the text and
\* the level of S and an empty parents mapping.
\* ------------------------------------------------------------------------
RoundTrip(sec) == split_text(to_markdown(sec))

C13_RoundTrip ==
    pc = "done" =>
        \A k \in 1..Len(sections) :
            RoundTrip(sections[k]) =
                << [section_header |-> sections[k].section_header,
                    section_text |-> sections[k].section_text,
                    header_level |-> sections[k].header_level,
                    metadata |-> [parents |-> <<>>]] >>

\* ------------------------------------------------------------------------
\* C14: for an input that is empty or only whitespace, split_text returns
\* the empty list, and it does so before the masking pass and the header
\* scan: it never reaches them, and no masked text, token mapping, match
\* list or header stack is built.
\* ------------------------------------------------------------------------
C14_BlankInputReturnsEmpty ==
    Strip(text) = <<>> =>
        /\ pc \in {"start", "done"}
        /\ sections = <<>>
        /\ processed_text = <<>>
        /\ replacement_map = <<>>
        /\ counter = 0
        /\ headers = <<>>
        /\ header_stack = <<>>

\* The call has returned for an input of blanks, tabs and newlines.
C14_Witness ==
    /\ pc = "done"
    /\ text = <<" ", NL, "\t">>
    /\ sections = <<>>

\* ------------------------------------------------------------------------
\* C15: for a non-blank input with no header line, split_text returns the
\* empty list; and the text before the first header line of a document is
\* in no section: the result is that of the document cut at its first
\* header line.
\* ------------------------------------------------------------------------
NoHeaderNoSection == HeaderLinesOutsideBlocks = {} => sections = <<>>

PreambleDropped ==
    HeaderLinesOutsideBlocks # {} =>
        sections = split_text(From(text, Sorted(HeaderLinesOutsideBlocks)[1]))

C15_NoHeaderNoPreamble ==
    (pc = "done" /\ Strip(text) # <<>>) =>
        NoHeaderNoSection /\ PreambleDropped

\* ------------------------------------------------------------------------
\* C16: the body of the k-th section is the text of the document from the
\* end of its header line to the start of the next header line (or to the
\* end of the document), trimmed, with the lines of its fenced blocks as
\* they are written; so the bodies lie one after the other and every line
\* after the first header line is in the body of the nearest header before
\* it.
\* ------------------------------------------------------------------------
\* The text between the k-th header line of the document and the next.
BodyOf(k) ==
    LET hl == Sorted(HeaderLinesOutsideBlocks)
        next == IF k < Len(hl) THEN hl[k + 1] ELSE Len(text) + 1
    IN SubSeq(text, LineEnd(text, hl[k]), next - 1)

C16_BodyIsTextBetweenHeaders ==
    pc = "done" =>
        /\ Len(sections) = Cardinality(HeaderLinesOutsideBlocks)
        /\ \A k \in 1..Len(sections) :
            sections[k].section_text = Strip(BodyOf(k))

\* ------------------------------------------------------------------------
\* C17: the parents mapping of a section has a key exactly for each depth
\* at which the section has an open ancestor, and the value is the text of
\* a header before it: no key stands for an absent ancestor, and a section
\* without ancestors has the empty mapping. to_dict gives the four keys
\* section_header, section_text, header_level and metadata, and
\* metadata.parents is that mapping.
\* ------------------------------------------------------------------------
C17_PresentKeysOnly ==
    \A k \in 1..Len(sections) :
        LET d == to_dict(sections[k])
            present == {n \in 1..(Level(k) - 1) : OpenAncestors(k, n) # {}}
        IN
        /\ DOMAIN Parents(k) = {HKey(n) : n \in present}
        /\ present = {} => Parents(k) = <<>>
        /\ \A key \in DOMAIN Parents(k) :
            \E j \in 1..(k - 1) : Parents(k)[key] = sections[j].section_header
        /\ DOMAIN d = {"section_header", "section_text", "header_level",
                       "metadata"}
        /\ DOMAIN d.metadata = {"parents"}
        /\ d.metadata.parents = Parents(k)

\* '### a / # b / ## c': a has depth 3 and no ancestor, c has the one key h1.
C17_Witness ==
    /\ pc = "done"
    /\ Levels = <<3, 1, 2>>
    /\ to_dict(sections[1]).metadata.parents = <<>>
    /\ to_dict(sections[3]).metadata.parents = (HKey(1) :> <<"b">>)

\* ------------------------------------------------------------------------
\* C18: from_file raises FileNotFoundError for a missing path and
\* IsADirectoryError for a directory, in both cases before any open or
\* read and with no sections built; the existence check comes first, the
\* directory check second, and both before the open; for a regular file
\* that is opened and read, from_file returns split_text of its content.
\* ------------------------------------------------------------------------
C18_FromFileErrors ==
    /\ (path_kind = "missing" /\ fpc # "exists") =>
           /\ fpc = "raised"
           /\ error = "FileNotFoundError"
           /\ calls = <<"exists">>
           /\ handle = "none"
           /\ sections = <<>> /\ pc = "idle"
    /\ (path_kind = "dir" /\ fpc \notin {"exists", "is_dir"}) =>
           /\ fpc = "raised"
           /\ error = "IsADirectoryError"
           /\ calls = <<"exists", "is_dir">>
           /\ handle = "none"
           /\ sections = <<>> /\ pc = "idle"
    /\ Len(calls) >= 1 => calls[1] = "exists"
    /\ Len(calls) >= 2 => calls[2] = "is_dir"
    /\ \A k \in 1..Len(calls) : calls[k] \in {"open", "read"} => k >= 3
    /\ fpc = "returned" =>
           /\ path_kind = "file"
           /\ error = "none"
           /\ sections = split_text(content)

\* from_file of the components module has raised for a directory.
C18_Witness ==
    /\ fpc = "raised"
    /\ variant = "components"
    /\ path_kind = "dir"
    /\ error = "IsADirectoryError"

\* ------------------------------------------------------------------------
\* C19: a call of from_file that opens the file does open, read, close in
\* this order and nothing else on the file: when from_file has returned or
\* raised, the file object is closed, also when the read or the decoding
\* failed and when split_text raised; and when the read raised, from_file
\* raises that very error.
\* ------------------------------------------------------------------------
C19_OpenReadClose ==
    /\ handle = "open" => fpc \in {"read", "split", "exit"}
    /\ fpc \in {"returned", "raised"} =>
           /\ handle # "open"
           /\ handle = "closed" <=>
                  calls = <<"exists", "is_dir", "open", "read", "close">>
           /\ read_error # "none" => fpc = "raised" /\ error = read_error
    /\ fpc = "except" => variant = "components" /\ handle # "open"

\* The read failed to decode in the components module: closed, re-raised.
C19_Witness ==
    /\ fpc = "raised"
    /\ variant = "components"
    /\ read_error = "UnicodeDecodeError"
    /\ error = "UnicodeDecodeError"
    /\ handle = "closed"

\* ------------------------------------------------------------------------
\* C20: process_text never raises: when the remote call raises, or the
\* response is not JSON or lacks section_header or section_text, it returns
\* a Section with the header, text, level and parents of the section it was
\* given, normalized = false and a non-empty error text.
\* ------------------------------------------------------------------------
\* The last attempt failed in the remote call or in the extraction.
Failed == response # None /\ (response.raised \/ ~Extractable(response))

C21_RetriedOnFailure ==
    npc = "returned" =>
        /\ result.metadata.error # None => attempt = attempts
        /\ attempt < attempts => result.metadata.normalized

\* ------------------------------------------------------------------------
\* C22: process_text leaves the Section passed to it as it was, in every
\* field, on the success path and on every failure path.
\* ------------------------------------------------------------------------
C22_InputNotMutated == section = given

\* ------------------------------------------------------------------------
\* C23: on success process_text returns a new Section: header and text of
\* the response, level and parents of the original, normalized = true, no
\* error, and original_content holding the original header and text; the
\* original is left as it was.
\* ------------------------------------------------------------------------
C23_SuccessBuildsReplacement ==
    (npc = "returned" /\ ~Failed) =>
        /\ result.section_header = response.json.obj["section_header"]
        /\ result.section_text = response.json.obj["section_text"]
        /\ result.header_level = given.header_level
        /\ result.metadata.parents = given.metadata.parents
        /\ result.metadata.normalized = TRUE
        /\ result.metadata.error = None
        /\ result.metadata.original_content =
               Some(MarkdownContent(given.section_header, given.section_text))
        /\ section = given

\* Section b with text x and a parent comes back as z / a, normalized.
C23_Witness ==
    /\ npc = "returned"
    /\ given.section_header = <<"b">> /\ given.section_text = <<"x">>
    /\ given.metadata.parents = (HKey(1) :> <<"c">>)
    /\ result.section_header = <<"z">> /\ result.section_text = <<"a">>
    /\ result.metadata.normalized
    /\ result.metadata.original_content.val.section_header = <<"b">>

\* ------------------------------------------------------------------------
\* C25: the order of the code (pop, push, parents from the entries of depth
\* below the current one) gives, after every header, the stack and the
\* parents mapping of the specified order: pop every entry of depth >= the
\* current one, take parents from the stack for the depths 1 to 4 below the
\* current depth, then push.
\* ------------------------------------------------------------------------
\* The specified pop: the entries of depth below level stay.
SpecPop(stack, level) == SelectSeq(stack, LAMBDA e : e[1] < level)

\* The stack of the specified order after the k-th header.
RECURSIVE SpecStack(_)
SpecStack(k) ==
    IF k = 0 THEN <<>>
    ELSE Append(SpecPop(SpecStack(k - 1), HLevel(k)), <<HLevel(k), HText(k)>>)

\* The parents of the k-th header in the specified order: read off the
\* popped stack, before the push, for the depths 1 to 4.
SpecParents(k) ==
    LET stack == SpecPop(SpecStack(k - 1), HLevel(k))
        depths == {n \in 1..4 :
                      n < HLevel(k) /\ \E j \in 1..Len(stack) : stack[j][1] = n}
    IN [key \in {HKey(n) : n \in depths} |->
           LET n == CHOOSE m \in depths : HKey(m) = key
               j == CHOOSE x \in 1..Len(stack) : stack[x][1] = n
           IN stack[j][2]]

C25_OrderOfStepsEquivalent ==
    pc \in {"loop", "done"} =>
        /\ header_stack = SpecStack(i)
        /\ \A k \in 1..Len(sections) : Parents(k) = SpecParents(k)

\* ------------------------------------------------------------------------
\* C26: after each header the stack is not empty, its top is the header
\* just processed, and its depths grow strictly from bottom to top; so it
\* is no longer than the depth of that header and holds at most one entry
\* of each depth.
\* ------------------------------------------------------------------------
C26_StackStrictlyIncreasing ==
    (pc \in {"loop", "done"} /\ i >= 1) =>
        LET n == Len(header_stack) IN
        /\ n >= 1
        /\ header_stack[n] = <<HLevel(i), HText(i)>>
        /\ \A j \in 1..(n - 1) : header_stack[j][1] < header_stack[j + 1][1]
        /\ n <= HLevel(i)
        /\ \A j, k \in 1..n : header_stack[j][1] = header_stack[k][1] => j = k

\* After '# a / ## b / ### c / ## d' the stack is a, d: b and c are closed.
C26_Witness ==
    /\ pc = "done"
    /\ Levels = <<1, 2, 3, 2>>
    /\ header_stack = << <<1, <<"a">>>>, <<2, <<"d">>>> >>

\* ------------------------------------------------------------------------
\* C27: ancestry is transitive: when the k-th section has a key h{n}, its
\* value is the text of the nearest header of depth n before it, and the
\* parents mapping of that header's section is the mapping of the k-th
\* section cut down to the keys of depth below n.
\* ------------------------------------------------------------------------
\* The nearest header of depth n before the k-th (0 when there is none).
NearestBefore(k, n) ==
    LET S == {j \in 1..(k - 1) : HLevel(j) = n} IN
    IF S = {} THEN 0 ELSE CHOOSE j \in S : \A x \in S : x <= j

\* The mapping f cut down to the keys of depth below n.
BelowDepth(f, n) ==
    [key \in {HKey(m) : m \in 1..(n - 1)} \cap DOMAIN f |-> f[key]]

C27_AncestryTransitive ==
    \A k \in 1..Len(sections) :
        \A n \in 1..(Level(k) - 1) :
            HKey(n) \in DOMAIN Parents(k) =>
                LET p == NearestBefore(k, n) IN
                /\ p # 0
                /\ Parents(k)[HKey(n)] = sections[p].section_header
                /\ Parents(p) = BelowDepth(Parents(k), n)

\* '# a / ## b / ### c': c lists b under h2, and b's parents are c's
\* parents below depth 2, the one key h1.
C27_Witness ==
    /\ pc = "done"
    /\ Levels = <<1, 2, 3>>
    /\ Parents(3) = (HKey(1) :> <<"a">>) @@ (HKey(2) :> <<"b">>)
    /\ Parents(2) = BelowDepth(Parents(3), 2)
    /\ Parents(2) = (HKey(1) :> <<"a">>)

\* ------------------------------------------------------------------------
\* C28: the two modules agree: on every text, split_text of the components
\* module gives the sections (header, text, level, parents) that split_text
\* of the utils module gives; and from_file of either module raises the
\* error that the path and the outcome of the open, the read and the split
\* determine, the components module re-raising what it caught.
\* ------------------------------------------------------------------------
\* The error a call of from_file ends with, read off the path and off what
\* the file system and the split did, whichever module runs.
ErrorOfOutcome ==
    IF path_kind = "missing" THEN {"FileNotFoundError"}
    ELSE IF path_kind = "dir" THEN {"IsADirectoryError"}
    ELSE IF read_error # "none" THEN {read_error}
    ELSE IF pc = "aborted" THEN SplitErrors
    ELSE OpenErrors

C28_VariantsAgree ==
    /\ pc = "done" => components_split_text(text) = sections
    /\ fpc \in {"except", "raised"} => error \in ErrorOfOutcome
    /\ fpc = "except" => variant = "components"
    /\ fpc = "returned" => error = "none" /\ sections = components_split_text(content)

\* The components module has split a document with a commented block into
\* the section the utils module gives.
C28_Witness ==
    /\ pc = "done"
    /\ fpc = "idle"
    /\ Len(sections) = 2
    /\ replacement_map # <<>>
    /\ components_split_text(text) = sections

\* ------------------------------------------------------------------------
\* C24: calls of split_text that run at once share nothing they write: in
\* every interleaving each call has the masked text and the token map of
\* its own document, the sections it has emitted so far and its result are
\* those of the call run alone, equal inputs give equal results, and the
\* instance keeps the one attribute it was built with.
\* ------------------------------------------------------------------------
C24_NoSharedState ==
    /\ self_state = [x \in Instances |-> NewInstance]
    /\ \A c \in Callers :
        LET f == frame[c]
            alone == split_text(f.text)
        IN
        /\ f.pc \in {"scan", "loop", "done"} /\ Strip(f.text) # <<>> =>
               /\ f.processed_text = process_code_blocks(f.text).text
               /\ f.replacement_map = process_code_blocks(f.text).map
        /\ f.pc = "loop" =>
               /\ f.i <= Len(alone)
               /\ f.sections = SubSeq(alone, 1, f.i)
        /\ f.pc = "done" => f.sections = alone
    /\ \A c, d \in Callers :
        (frame[c].pc = "done" /\ frame[d].pc = "done"
             /\ frame[c].text = frame[d].text) =>
            frame[c].sections = frame[d].sections

\* Two calls on one instance, both in their loops after one header, on
\* different documents, each with a token map and a stack of its own.
C24_Witness ==
    /\ inst["A"] = inst["B"]
    /\ frame["A"].text # frame["B"].text
    /\ frame["A"].pc = "loop" /\ frame["A"].i = 1
    /\ frame["B"].pc = "loop" /\ frame["B"].i = 1
    /\ Len(frame["A"].replacement_map) = 1
    /\ Len(frame["B"].replacement_map) = 2
    /\ frame["A"].header_stack # frame["B"].header_stack

====
